---- MODULE Spec2Model ----
(***************************************************************************)
(* Model of the Volcengine TTS streaming client                            *)
(* (src/src/pipecat/services/volcengine.py) and of the two utilities it    *)
(* calls (utils/audio.py, utils/path.py).                                  *)
(*                                                                         *)
(* Bytes are integers 0..255 and byte strings are sequences of them.       *)
(* One synthesis call (run_tts) is modelled as a state machine whose       *)
(* positions are the suspension points of the coroutine; the server is     *)
(* the environment and chooses the raw frames the client receives.         *)
(***************************************************************************)
EXTENDS Integers, Sequences, FiniteSets, TLC

\* ------------------------------------------------------------------ bounds
MaxFrames == 3
MaxAudioLen == 2
MaxThreshold == 2
MaxPayloadLen == 3
MaxCalls == 2

\* --------------------------------------------------------------- constants
INT32_MAX == 2147483646 + 1
INT32_MIN == (-2147483647) - 1

AUDIO_ONLY == 11
FRONTEND == 12
ERROR_MESSAGE == 15
FULL_CLIENT_REQUEST == 1

\* ------------------------------------------------------------ byte strings
Min(a, b) == IF a < b THEN a ELSE b

\* Python s[a:b] for 0 <= a, 0 <= b (0-based, half open, clamped to len(s)).
Slice(s, a, b) ==
  LET hi == Min(b, Len(s))
  IN  IF a + 1 > hi THEN << >> ELSE SubSeq(s, a + 1, hi)

\* Python s[a:]
SliceFrom(s, a) == Slice(s, a, Len(s))

RECURSIVE FromBytesU(_)
\* int.from_bytes(b, "big", signed=False)
FromBytesU(b) ==
  IF b = << >> THEN 0
  ELSE 256 * FromBytesU(SubSeq(b, 1, Len(b) - 1)) + b[Len(b)]

Complement(b) == [i \in 1..Len(b) |-> 255 - b[i]]

\* int.from_bytes(b, "big", signed=True): two's complement over len(b) bytes.
FromBytesS(b) ==
  IF b = << >> THEN 0
  ELSE IF b[1] >= 128 THEN (-FromBytesU(Complement(b))) - 1
  ELSE FromBytesU(b)

\* n.to_bytes(4, "big") for 0 <= n < 2^31
ToBytes4(n) ==
  << (n \div 16777216) % 256, (n \div 65536) % 256, (n \div 256) % 256, n % 256 >>

\* n.to_bytes(4, "big", signed=True) for a 32-bit n
ToBytes4S(n) == IF n >= 0 THEN ToBytes4(n) ELSE Complement(ToBytes4((-(n + 1))))

RECURSIVE SumBytes(_)
SumBytes(b) == IF b = << >> THEN 0 ELSE b[1] + SumBytes(Tail(b))

RECURSIVE SeqsUpTo(_, _)
\* all sequences over S of length <= n
SeqsUpTo(S, n) ==
  IF n = 0 THEN { << >> }
  ELSE LET shorter == SeqsUpTo(S, n - 1)
       IN  shorter \cup { Append(s, x) : s \in shorter, x \in S }

\* ------------------------------------------------------------------- gzip
\* gzip.compress / gzip.decompress, as a one-member stream holding a stored
\* block: ID1 ID2 CM, the block header (final-stored marker and length), the
\* data, and the trailer (checksum and ISIZE, both reduced modulo 256).
GZIP_MAGIC == << 31, 139, 8 >>

GzipChecksum(p) == SumBytes(p) % 256

gzip_compress(p) ==
  GZIP_MAGIC \o << 1, Len(p) % 256 >> \o p \o << GzipChecksum(p), Len(p) % 256 >>

\* [ok, data]: ok = FALSE stands for BadGzipFile / EOFError / zlib.error.
gzip_decompress(b) ==
  IF b = << >> THEN [ok |-> TRUE, data |-> << >>]
  ELSE IF Len(b) < 7 THEN [ok |-> FALSE, data |-> << >>]
  ELSE LET data == SubSeq(b, 6, Len(b) - 2)
       IN  IF /\ SubSeq(b, 1, 3) = GZIP_MAGIC
              /\ b[4] = 1
              /\ b[5] = Len(data) % 256
              /\ b[Len(b) - 1] = GzipChecksum(data)
              /\ b[Len(b)] = Len(data) % 256
           THEN [ok |-> TRUE, data |-> data]
           ELSE [ok |-> FALSE, data |-> << >>]

\* str(b, "utf-8") succeeds; the model's byte strings hold only one-byte
\* code points and bytes that can never start or continue a sequence.
Utf8Valid(b) == \A i \in 1..Len(b) : b[i] < 128

\* ------------------------------------------------- frames the server sends
\* A server frame is described by the fields the server fills in; Raw(d) is
\* the byte string that arrives.  hs is the header-size nibble, ext the
\* number of header-extension bytes really present, gz says how the body of
\* an Error/Frontend frame is packed ("none": plain, compression nibble 0;
\* "ok": gzip, nibble 1; "bad": nibble 1 over bytes that are no gzip stream),
\* cut >= 0 truncates the frame to its first cut bytes.
AudioTags == { 16, 160 }

Body(t, n) == [i \in 1..n |-> t + i]

AudioBodies == { Body(t, n) : t \in AudioTags, n \in 0..MaxAudioLen }

SampledSeqs == { -1, 0, 1, INT32_MIN, INT32_MAX }

Frame(mt, flags, gz, hs, ext, seq, code, body, cut) ==
  [mt |-> mt, flags |-> flags, gz |-> gz, hs |-> hs, ext |-> ext,
   seq |-> seq, code |-> code, body |-> body, cut |-> cut]

CompressionNibble(d) == IF d.gz = "none" THEN 0 ELSE 1

Packed(d) ==
  IF d.gz = "ok" THEN gzip_compress(d.body)
  ELSE IF d.gz = "bad" THEN << 0 >> \o d.body
  ELSE d.body

PayloadOf(d) ==
  IF d.mt = AUDIO_ONLY
  THEN IF d.flags = 0 THEN << >>
       ELSE ToBytes4S(d.seq) \o ToBytes4(Len(d.body)) \o d.body
  ELSE IF d.mt = ERROR_MESSAGE
  THEN ToBytes4(d.code) \o ToBytes4(Len(Packed(d))) \o Packed(d)
  ELSE IF d.mt = FRONTEND
  THEN ToBytes4(Len(Packed(d))) \o Packed(d)
  ELSE d.body

FullFrame(d) ==
  << 16 + d.hs, 16 * d.mt + d.flags, 16 + CompressionNibble(d), 0 >>
    \o [i \in 1..d.ext |-> 0] \o PayloadOf(d)

Raw(d) == IF d.cut < 0 THEN FullFrame(d) ELSE Slice(FullFrame(d), 0, d.cut)

\* every flags value with every sampled sequence number, over an empty and a
\* one-byte body; every body, in a terminal and in a non-terminal frame; and
\* frames with a header extension
AudioFrames ==
  { Frame(AUDIO_ONLY, f, "none", 1, 0, s, 0, b, -1) :
      f \in 1..3, s \in SampledSeqs, b \in { << >>, Body(16, 1) } }
  \cup { Frame(AUDIO_ONLY, 1, "none", 1, 0, s, 0, b, -1) :
          s \in { -1, 1 }, b \in AudioBodies }
  \cup { Frame(AUDIO_ONLY, 1, "none", 2, 4, s, 0, Body(16, 1), -1) : s \in { -1, 1 } }

AckFrames == { Frame(AUDIO_ONLY, 0, "none", 1, 0, 0, 0, << >>, -1) }

ErrorMessages == { << 105, 118 >>, << 255 >> }

ErrorFrames ==
  { Frame(ERROR_MESSAGE, 0, g, 1, 0, 0, 55, m, -1) :
      g \in { "none", "ok", "bad" }, m \in ErrorMessages }

FrontendFrames ==
  { Frame(FRONTEND, 0, g, 1, 0, 0, 0, << 123, 125 >>, -1) : g \in { "none", "ok", "bad" } }

UnknownFrames ==
  { Frame(mt, 0, "none", 1, 0, 0, 0, << >>, -1) : mt \in { FULL_CLIENT_REQUEST, 9 } }

\* fewer than 4 bytes
ShortFrames ==
  { Frame(AUDIO_ONLY, 1, "none", 1, 0, 1, 0, Body(16, 1), n) : n \in 0..3 }

\* at least 4 bytes, but the header claims more bytes than the frame has
OverHeaderFrames ==
  { Frame(mt, 1, "none", 3, 0, -1, 55, Body(16, 1), n) :
      mt \in { AUDIO_ONLY, ERROR_MESSAGE, FRONTEND }, n \in { 4, 8 } }

ServerFrames ==
  AudioFrames \cup AckFrames \cup ErrorFrames \cup FrontendFrames
    \cup UnknownFrames \cup ShortFrames \cup OverHeaderFrames

\* --------------------------------------------------------- parse_response
NoLog == [code |-> -1, msg |-> << >>]

Result(exc, dn, wrote, log) == [exc |-> exc, done |-> dn, wrote |-> wrote, log |-> log]

Raised(exc) == Result(exc, FALSE, << >>, NoLog)

\* variant: the payload offset is taken in bytes instead of 4-byte units
DecodeHeader_byteOffset(r) ==
  IF Len(r) < 4 THEN [exc |-> "IndexError"]
  ELSE [exc |-> "none",
        protocol_version |-> r[1] \div 16,
        header_size |-> r[1] % 16,
        message_type |-> r[2] \div 16,
        message_type_specific_flags |-> r[2] % 16,
        serialization_method |-> r[3] \div 16,
        message_compression |-> r[3] % 16,
        reserved |-> r[4],
        header_extensions |-> Slice(r, 4, r[1] % 16),
        payload |-> SliceFrom(r, r[1] % 16)]

\* volcengine.py 159-167: res[0..3] raise IndexError on a short buffer, the
\* slices never raise.
DecodeHeader(r) ==
  IF Len(r) < 4 THEN [exc |-> "IndexError"]
  ELSE [exc |-> "none",
        protocol_version |-> r[1] \div 16,
        header_size |-> r[1] % 16,
        message_type |-> r[2] \div 16,
        message_type_specific_flags |-> r[2] % 16,
        serialization_method |-> r[3] \div 16,
        message_compression |-> r[3] % 16,
        reserved |-> r[4],
        header_extensions |-> Slice(r, 4, (r[1] % 16) * 4),
        payload |-> SliceFrom(r, (r[1] % 16) * 4)]

\* variant: the comparison lets the sequence number 0 end the stream
IsTerminal_orZero(sequence_number) == sequence_number <= 0

\* volcengine.py 189-192
IsTerminal(sequence_number) == sequence_number < 0

\* volcengine.py 178-192
ParseAudio(h) ==
  IF h.message_type_specific_flags = 0
  THEN Result("none", FALSE, << >>, NoLog)
  ELSE LET sequence_number == FromBytesS(Slice(h.payload, 0, 4))
           payload == SliceFrom(h.payload, 8)
       IN  Result("none", IsTerminal(sequence_number), payload, NoLog)

\* volcengine.py 193-203
ParseError(h) ==
  LET code == FromBytesU(Slice(h.payload, 0, 4))
      packed == SliceFrom(h.payload, 8)
      unz == IF h.message_compression = 1 THEN gzip_decompress(packed)
             ELSE [ok |-> TRUE, data |-> packed]
  IN  IF ~unz.ok THEN Raised("BadGzipFile")
      ELSE IF ~Utf8Valid(unz.data) THEN Raised("UnicodeDecodeError")
      ELSE Result("none", TRUE, << >>, [code |-> code, msg |-> unz.data])

\* volcengine.py 204-209 and the trailing return of 214
ParseFrontend(h) ==
  LET packed == SliceFrom(h.payload, 4)
      unz == IF h.message_compression = 1 THEN gzip_decompress(packed)
             ELSE [ok |-> TRUE, data |-> packed]
  IN  IF ~unz.ok THEN Raised("BadGzipFile")
      ELSE Result("none", TRUE, << >>, NoLog)

\* volcengine.py 210-212
ParseUndefined(h) == Result("none", TRUE, << >>, NoLog)

parse_response(r) ==
  LET h == DecodeHeader(r)
  IN  IF h.exc # "none" THEN Raised(h.exc)
      ELSE IF h.message_type = AUDIO_ONLY THEN ParseAudio(h)
      ELSE IF h.message_type = ERROR_MESSAGE THEN ParseError(h)
      ELSE IF h.message_type = FRONTEND THEN ParseFrontend(h)
      ELSE ParseUndefined(h)

\* ------------------------------------------------------------ the request
\* volcengine.py 61
default_header == << 17, 16, 17, 0 >>

RECURSIVE JsonEscape(_)
\* json.dumps escapes the quotation mark and the backslash of a string
JsonEscape(t) ==
  IF t = << >> THEN << >>
  ELSE (IF t[1] \in { 34, 92 } THEN << 92, t[1] >> ELSE << t[1] >>) \o JsonEscape(Tail(t))

\* volcengine.py 108-116: the request document with the text filled in; the
\* fixed sub-objects around the text are reduced to the enclosing braces.
payload_bytes(text) == << 123, 34 >> \o JsonEscape(text) \o << 34, 125 >>

\* variant: the size is taken before the payload is compressed
full_client_request_sizeFirst(p) ==
  LET compressed == gzip_compress(p)
  IN  default_header \o ToBytes4(Len(p)) \o compressed

\* volcengine.py 117-120
full_client_request(p) ==
  LET compressed == gzip_compress(p)
  IN  default_header \o ToBytes4(Len(compressed)) \o compressed

Texts == { << 104, 105 >>, << 34 >> }

\* -------------------------------------------------------------- utilities
\* path.py 28-38: every file whose name starts with the prefix is removed
delete_file_by_prefix(fs) == << >>

\* audio.py 74-83: audio_full stays None on an empty list and None.export
\* raises; otherwise the export is taken to succeed.
merge_raises(pcm_segs) == pcm_segs = << >>

\* numpy.fromfile(seg_path, dtype=int16): whole 16-bit samples in the file
SampleCount(data) == Len(data) \div 2

\* ------------------------------------------------------------------ state
VARIABLES
  pc,          \* position of run_tts: idle, connect, send, recv, yield, completed,
               \* failed, cancelled
  error,       \* the exception that ended the call, or "none"
  sock,        \* none, open, closed
  seg_size,    \* the threshold argument
  request,     \* full_client_request
  sent,        \* frames written to the socket
  idx,         \* segment index
  seg_list,    \* closed segments (by index), in closing order
  files,       \* the segment files: index -> content
  res,         \* the raw frame last received
  done,        \* what parse_response returned for it
  yielded,     \* segments handed to the caller as AudioRawFrame, in order
  merged,      \* the lists handed to merge_pcm_list_into_mp3, in order
  log,         \* the error code and message last logged
  nrecv,       \* frames received
  srv,         \* the server's description of the frame last received
  audio_in,    \* audio bytes the server has sent in AudioOnly frames with flags # 0
  segs_before, \* len(seg_list) before the frame last received
  wrote,       \* the bytes the frame last received added to its segment file
  calls,       \* run_tts calls started
  opened,      \* connections opened so far; a connection is named by its number
  ws,          \* the connection of the current call, 0 when it has none
  used,        \* connections that earlier calls held
  orphans,     \* connections that were still open when their call had ended
  c_pc, c_payload, c_frame, c_dec   \* the codec exercised on its own

sessionVars ==
  << pc, error, sock, seg_size, request, sent, idx, seg_list, files, res, done,
     yielded, merged, log, nrecv, srv, audio_in, segs_before, wrote,
     calls, opened, ws, used, orphans >>

codecVars == << c_pc, c_payload, c_frame, c_dec >>

vars == << sessionVars, codecVars >>

NoFrame == Frame(0, 0, "none", 0, 0, 0, 0, << >>, -1)

NoHeader == [exc |-> "unset"]

SessionInit ==
  /\ pc = "idle"
  /\ error = "none"
  /\ sock = "none"
  /\ seg_size = 0
  /\ request = << >>
  /\ sent = << >>
  /\ idx = 0
  /\ seg_list = << >>
  /\ files = << >>
  /\ res = << >>
  /\ done = FALSE
  /\ yielded = << >>
  /\ merged = << >>
  /\ log = NoLog
  /\ nrecv = 0
  /\ srv = NoFrame
  /\ audio_in = << >>
  /\ segs_before = 0
  /\ wrote = << >>
  /\ calls = 0
  /\ opened = 0
  /\ ws = 0
  /\ used = { }
  /\ orphans = { }

CodecIdle ==
  /\ c_pc = "off"
  /\ c_payload = << >>
  /\ c_frame = << >>
  /\ c_dec = NoHeader

Init == SessionInit /\ CodecIdle

\* ---------------------------------------------------------------- run_tts
\* volcengine.py 98-126
Start ==
  /\ pc = "idle"
  /\ \E text \in Texts, h \in 0..MaxThreshold :
       /\ seg_size' = h
       /\ request' = full_client_request(payload_bytes(text))
  /\ files' = delete_file_by_prefix(files)
  /\ idx' = 0
  /\ seg_list' = << >>
  /\ pc' = "connect"
  /\ calls' = calls + 1
  /\ UNCHANGED << error, sock, sent, res, done, yielded, merged, log, nrecv, srv,
                  audio_in, segs_before, wrote, opened, ws, used, orphans >>
  /\ UNCHANGED codecVars

\* variant: the connection of an earlier call is kept and used again
NewConnection_reused(n) == IF n = 0 THEN 1 ELSE n

\* volcengine.py 127: websockets.connect makes a connection of its own
NewConnection(n) == n + 1

\* volcengine.py 127: the handshake succeeds
Connect ==
  /\ pc = "connect"
  /\ sock' = "open"
  /\ ws' = NewConnection(opened)
  /\ opened' = ws'
  /\ UNCHANGED << calls, used, orphans >>
  /\ pc' = "send"
  /\ UNCHANGED << error, seg_size, request, sent, idx, seg_list, files, res, done,
                  yielded, merged, log, nrecv, srv, audio_in, segs_before, wrote >>
  /\ UNCHANGED codecVars

\* volcengine.py 127: websockets.connect raises
ConnectFail ==
  /\ pc = "connect"
  /\ pc' = "failed"
  /\ error' = "ConnectionError"
  /\ UNCHANGED << sock, seg_size, request, sent, idx, seg_list, files, res, done,
                  yielded, merged, log, nrecv, srv, audio_in, segs_before, wrote >>
  /\ UNCHANGED << calls, opened, ws, used, orphans >>
  /\ UNCHANGED codecVars

\* volcengine.py 128
Send ==
  /\ pc = "send"
  /\ sent' = Append(sent, request)
  /\ pc' = "recv"
  /\ UNCHANGED << error, sock, seg_size, request, idx, seg_list, files, res, done,
                  yielded, merged, log, nrecv, srv, audio_in, segs_before, wrote >>
  /\ UNCHANGED << calls, opened, ws, used, orphans >>
  /\ UNCHANGED codecVars

\* volcengine.py 128: ws.send raises; leaving the async with closes the socket
SendFail ==
  /\ pc = "send"
  /\ pc' = "failed"
  /\ error' = "ConnectionClosed"
  /\ sock' = "closed"
  /\ UNCHANGED << seg_size, request, sent, idx, seg_list, files, res, done,
                  yielded, merged, log, nrecv, srv, audio_in, segs_before, wrote >>
  /\ UNCHANGED << calls, opened, ws, used, orphans >>
  /\ UNCHANGED codecVars

\* variant: the file is opened for writing, not for appending
Appended_truncating(fs, i, data) == (i :> data) @@ fs

\* open(seg_path, "ab") creates the file when it is missing; write appends
Appended(fs, i, data) ==
  LET old == IF i \in DOMAIN fs THEN fs[i] ELSE << >>
  IN  (i :> (old \o data)) @@ fs

\* variant: the threshold test is not strict
SegmentCloses_atThreshold(dn, size, threshold) == dn \/ size >= threshold

\* variant: the terminal frame does not force the close
SegmentCloses_noForce(dn, size, threshold) == size > threshold

\* volcengine.py 137
SegmentCloses(dn, size, threshold) == dn \/ size > threshold

\* variant: the frame is yielded without the emptiness test
HasSamples_noGuard(data) == TRUE

\* variant: a segment of a single sample is not yielded
HasSamples_moreThanOne(data) == SampleCount(data) > 1

\* volcengine.py 143-144
HasSamples(data) == SampleCount(data) > 0

\* the audio bytes a server frame carries after its 8-byte sub-header
AudioSent(d) ==
  IF d.mt = AUDIO_ONLY /\ d.flags # 0 THEN SliceFrom(Raw(d), 4 + d.ext + 8) ELSE << >>

\* volcengine.py 150-153 (and the exit of the async with of 127)
Finish ==
  /\ merged' = Append(merged, seg_list')
  /\ sock' = "closed"
  /\ IF merge_raises(seg_list')
     THEN pc' = "failed" /\ error' = "AttributeError"
     ELSE pc' = "completed" /\ error' = error

\* variant: the size is taken before the frame's bytes are written
SegmentSize_beforeWrite(fs, i) == IF i \in DOMAIN files THEN Len(files[i]) ELSE 0

\* volcengine.py 137: os.path.getsize(seg_path), after the write and close
SegmentSize(fs, i) == Len(fs[i])

\* variant: the index does not move when a segment closes
NextIndex_same(i) == i

\* volcengine.py 138
NextIndex(i) == i + 1

\* volcengine.py 130-153: one turn of the loop, up to the next suspension,
\* for a frame drawn from the set S
RecvFrom(S) ==
  /\ pc = "recv"
  /\ nrecv < MaxFrames
  /\ \E d \in S :
       LET r == parse_response(Raw(d))
           fs == Appended(files, idx, r.wrote)
           closes == r.exc = "none"
                       /\ SegmentCloses(r.done, SegmentSize(fs, idx), seg_size)
       IN  /\ srv' = d
           /\ res' = Raw(d)
           /\ nrecv' = nrecv + 1
           /\ audio_in' = audio_in \o AudioSent(d)
           /\ segs_before' = Len(seg_list)
           /\ files' = fs
           /\ wrote' = r.wrote
           /\ log' = IF r.exc = "none" /\ r.log # NoLog THEN r.log ELSE log
           /\ done' = r.done
           /\ idx' = IF closes THEN NextIndex(idx) ELSE idx
           /\ seg_list' = IF closes THEN Append(seg_list, idx) ELSE seg_list
           /\ IF r.exc # "none"
              THEN /\ pc' = "failed"
                   /\ error' = r.exc
                   /\ sock' = "closed"
                   /\ UNCHANGED << yielded, merged >>
              ELSE IF closes /\ HasSamples(fs[idx])
              THEN /\ yielded' = Append(yielded, idx)
                   /\ pc' = "yield"
                   /\ UNCHANGED << error, sock, merged >>
              ELSE IF r.done
              THEN Finish /\ UNCHANGED yielded
              ELSE /\ pc' = "recv"
                   /\ UNCHANGED << error, sock, yielded, merged >>
  /\ UNCHANGED << seg_size, request, sent, calls, opened, ws, used, orphans >>
  /\ UNCHANGED codecVars

Recv == RecvFrom(ServerFrames)

\* volcengine.py 130: ws.recv raises (the connection closed or broke)
RecvFail ==
  /\ pc = "recv"
  /\ pc' = "failed"
  /\ error' = "ConnectionClosed"
  /\ sock' = "closed"
  /\ UNCHANGED << seg_size, request, sent, idx, seg_list, files, res, done,
                  yielded, merged, log, nrecv, srv, audio_in, segs_before, wrote >>
  /\ UNCHANGED << calls, opened, ws, used, orphans >>
  /\ UNCHANGED codecVars

\* variant: the loop goes on after the yield without testing done
Resume_noBreak ==
  /\ pc = "yield"
  /\ pc' = "recv"
  /\ UNCHANGED << error, sock, merged, calls, opened, ws, used, orphans >>
  /\ UNCHANGED << seg_size, request, sent, idx, seg_list, files, res, done,
                  yielded, log, nrecv, srv, audio_in, segs_before, wrote >>
  /\ UNCHANGED codecVars

\* volcengine.py 148-153: the caller asks for the next frame
Resume ==
  /\ pc = "yield"
  /\ UNCHANGED << calls, opened, ws, used, orphans >>
  /\ UNCHANGED << seg_size, request, sent, idx, seg_list, files, res, done,
                  yielded, log, nrecv, srv, audio_in, segs_before, wrote >>
  /\ IF done
     THEN Finish
     ELSE pc' = "recv" /\ UNCHANGED << error, sock, merged >>
  /\ UNCHANGED codecVars

\* variant: the bytes of the open segment are handed out when the call is abandoned
Cancel_flushing ==
  /\ pc \in { "recv", "yield" }
  /\ pc' = "cancelled"
  /\ sock' = "closed"
  /\ yielded' = IF idx \in DOMAIN files THEN Append(yielded, idx) ELSE yielded
  /\ UNCHANGED << error, seg_size, request, sent, idx, seg_list, files, res, done,
                  merged, log, nrecv, srv, audio_in, segs_before, wrote,
                  calls, opened, ws, used, orphans >>
  /\ UNCHANGED codecVars

\* volcengine.py 127-153: the caller abandons the call while run_tts is
\* suspended at ws.recv (130, CancelledError) or at the yield (148,
\* GeneratorExit from aclose); the exception leaves the async with, which
\* closes the socket, and nothing else of the loop runs.
Cancel ==
  /\ pc \in { "recv", "yield" }
  /\ pc' = "cancelled"
  /\ sock' = "closed"
  /\ UNCHANGED << error, seg_size, request, sent, idx, seg_list, files, res, done,
                  yielded, merged, log, nrecv, srv, audio_in, segs_before, wrote,
                  calls, opened, ws, used, orphans >>
  /\ UNCHANGED codecVars

Next ==
  \/ Start
  \/ Connect
  \/ ConnectFail
  \/ Send
  \/ SendFail
  \/ Recv
  \/ RecvFail
  \/ Resume
  \/ Cancel

Spec == Init /\ [][Next]_vars

\* The steps run_tts takes by itself, and the caller's request for the next
\* frame, happen when they can; the arrival of a frame and the failure of the
\* socket are the server's and the network's to decide.
FairSpec ==
  /\ Spec
  /\ WF_vars(Start)
  /\ WF_vars(Connect \/ ConnectFail)
  /\ WF_vars(Send \/ SendFail)
  /\ WF_vars(Resume)

\* ------------------------------------------------- one call after another
\* one frame for each way a call can end, and one that lets it go on
FewFrames ==
  { Frame(AUDIO_ONLY, 1, "none", 1, 0, 1, 0, Body(16, 2), -1),
    Frame(AUDIO_ONLY, 2, "none", 1, 0, -1, 0, Body(16, 1), -1),
    Frame(ERROR_MESSAGE, 0, "ok", 1, 0, 0, 55, << 105, 118 >>, -1),
    Frame(ERROR_MESSAGE, 0, "bad", 1, 0, 0, 55, << 105, 118 >>, -1),
    Frame(FULL_CLIENT_REQUEST, 0, "none", 1, 0, 0, 0, << >>, -1),
    Frame(AUDIO_ONLY, 1, "none", 1, 0, 1, 0, Body(16, 1), 3) }

RecvFew == RecvFrom(FewFrames)

\* volcengine.py 98-100: run_tts is called again once the call before it is
\* over; its locals are new, and the segment files of the new call live
\* under the prefix of a new uuid.
NextCall ==
  /\ pc \in { "completed", "failed", "cancelled" }
  /\ calls < MaxCalls
  /\ used' = used \cup (IF ws = 0 THEN { } ELSE { ws })
  /\ orphans' = orphans \cup (IF sock = "open" THEN { ws } ELSE { })
  /\ ws' = 0
  /\ pc' = "idle"
  /\ error' = "none"
  /\ sock' = "none"
  /\ seg_size' = 0
  /\ request' = << >>
  /\ sent' = << >>
  /\ idx' = 0
  /\ seg_list' = << >>
  /\ files' = << >>
  /\ res' = << >>
  /\ done' = FALSE
  /\ yielded' = << >>
  /\ merged' = << >>
  /\ log' = NoLog
  /\ nrecv' = 0
  /\ srv' = NoFrame
  /\ audio_in' = << >>
  /\ segs_before' = 0
  /\ wrote' = << >>
  /\ UNCHANGED << calls, opened >>
  /\ UNCHANGED codecVars

CallsNext ==
  \/ Start
  \/ Connect
  \/ ConnectFail
  \/ Send
  \/ SendFail
  \/ RecvFew
  \/ RecvFail
  \/ Resume
  \/ Cancel
  \/ NextCall

SpecCalls == Init /\ [][CallsNext]_vars

\* ------------------------------------------------- the codec on its own
\* encode (volcengine.py 116-120) applied to an arbitrary payload, and the
\* header decoding of parse_response (159-167) applied to the result
PayloadBytes == { 0, 123, 255 }

Payloads == SeqsUpTo(PayloadBytes, MaxPayloadLen)

CodecInit ==
  /\ SessionInit
  /\ c_pc = "init"
  /\ c_payload \in Payloads
  /\ c_frame = << >>
  /\ c_dec = NoHeader

CodecEncode ==
  /\ c_pc = "init"
  /\ c_frame' = full_client_request(c_payload)
  /\ c_pc' = "encoded"
  /\ UNCHANGED << c_payload, c_dec >>
  /\ UNCHANGED sessionVars

CodecDecode ==
  /\ c_pc = "encoded"
  /\ c_dec' = DecodeHeader(c_frame)
  /\ c_pc' = "decoded"
  /\ UNCHANGED << c_payload, c_frame >>
  /\ UNCHANGED sessionVars

CodecNext ==
  \/ CodecEncode
  \/ CodecDecode

SpecCodec == CodecInit /\ [][CodecNext]_vars

\* ------------------------------------------------------------- properties
Streaming == pc \in { "recv", "yield" }

Completed == pc = "completed"

Failed == pc = "failed"

Cancelled == pc = "cancelled"

Range(q) == { q[i] : i \in 1..Len(q) }

\* the frame last received is as the server built it, with a header whose
\* size nibble matches the bytes present
WellFormed(d) == d.cut < 0 /\ d.hs * 4 = 4 + d.ext

RECURSIVE SumSizes(_, _)
SumSizes(fs, segs) ==
  IF segs = << >> THEN 0 ELSE Len(fs[segs[1]]) + SumSizes(fs, Tail(segs))

\* the frame last received is an AudioOnly frame that parse_response reported
\* as the end of the stream
TerminalReached ==
  /\ nrecv > 0
  /\ Len(res) >= 4
  /\ res[2] \div 16 = AUDIO_ONLY
  /\ done

\* C1: for an AudioOnly frame with flags # 0, parse_response returns True
\* exactly when the frame's signed 32-bit sequence number is negative,
\* whatever the flags and whatever frames came before.
C1_TerminalIffNegativeSeq ==
  (nrecv > 0 /\ srv.mt = AUDIO_ONLY /\ srv.flags # 0 /\ WellFormed(srv))
    => (done <=> srv.seq < 0)

C1_Witness ==
  /\ nrecv = 2
  /\ srv.mt = AUDIO_ONLY
  /\ srv.flags = 1
  /\ srv.seq = INT32_MIN
  /\ done
  /\ Completed

\* C2: a Frontend frame is not terminal: nothing is written, no segment is
\* closed and the session goes on receiving.
C2_FrontendNotTerminal ==
  (nrecv > 0 /\ srv.mt = FRONTEND /\ WellFormed(srv) /\ srv.gz # "bad" /\ error = "none")
    => /\ Streaming
       /\ ~done
       /\ wrote = << >>
       /\ Len(seg_list) = segs_before

\* C3: an Error frame ends the session in Failed with a ProtocolError that
\* carries the frame's code and (decompressed) message.
C3_ErrorFrameFails ==
  (nrecv > 0 /\ srv.mt = ERROR_MESSAGE /\ WellFormed(srv) /\ srv.gz # "bad"
     /\ Utf8Valid(srv.body) /\ ~Streaming)
    => /\ Failed
       /\ error = "ProtocolError"
       /\ log = [code |-> srv.code, msg |-> srv.body]

\* C4: a frame of any other message type ends the session in Failed with
\* UnknownMessageType.
C4_UnknownTypeFails ==
  (nrecv > 0 /\ srv.mt \notin { AUDIO_ONLY, FRONTEND, ERROR_MESSAGE }
     /\ WellFormed(srv) /\ ~Streaming)
    => /\ Failed
       /\ error = "UnknownMessageType"

\* C5: a raw response shorter than 4 bytes, or shorter than its header says,
\* fails the session and adds no audio bytes.
C5_MalformedFrameFails ==
  (nrecv > 0 /\ (Len(res) < 4 \/ (res[1] % 16) * 4 > Len(res)))
    => /\ Failed
       /\ error # "none"
       /\ wrote = << >>

\* C6: once the terminal frame has been processed, the closed segments hold
\* exactly the audio bytes received, and every closed segment but the last
\* is longer than the threshold.
C6_SegmentsPartitionAudio ==
  TerminalReached =>
    /\ SumSizes(files, seg_list) = Len(audio_in)
    /\ \A i \in 1..(Len(seg_list) - 1) : Len(files[seg_list[i]]) > seg_size

C6_Witness ==
  /\ TerminalReached
  /\ Completed
  /\ seg_size >= 1
  /\ Len(seg_list) >= 2
  /\ Len(audio_in) > seg_size + 1

\* C7 as stated: a session without audio bytes closes no segment, yields
\* nothing and completes.
C7_ZeroAudioNoSegment ==
  (TerminalReached /\ audio_in = << >>)
    => /\ Completed
       /\ seg_list = << >>
       /\ yielded = << >>

\* C7 as amended: a session without audio bytes yields nothing and
\* completes; the terminal frame closes one segment of zero bytes, and the
\* merge is handed the list holding just that segment.
C7_ZeroAudioOneEmptySegment ==
  (TerminalReached /\ audio_in = << >>)
    => /\ Completed
       /\ yielded = << >>
       /\ seg_list = << 0 >>
       /\ files[0] = << >>
       /\ merged = << seg_list >>

C7_Witness ==
  /\ TerminalReached
  /\ audio_in = << >>
  /\ nrecv >= 2
  /\ Completed

\* C8 as stated: a terminal frame that leaves the current buffer empty,
\* after earlier segments were closed, closes no further segment.
C8_EmptyFinalCloseAddsNothing ==
  (TerminalReached /\ segs_before >= 1 /\ files[segs_before] = << >>)
    => /\ Completed
       /\ Len(seg_list) = segs_before

\* C8 as amended: such a terminal frame closes exactly one further segment,
\* of zero bytes, which is not yielded; the session completes and the merge
\* is handed the list that ends with it.
C8_EmptyFinalCloseAddsEmptySegment ==
  (TerminalReached /\ segs_before >= 1 /\ files[segs_before] = << >>)
    => /\ Completed
       /\ Len(seg_list) = segs_before + 1
       /\ seg_list[Len(seg_list)] = segs_before
       /\ \A i \in 1..Len(yielded) : yielded[i] # segs_before
       /\ merged = << seg_list >>

C8_Witness ==
  /\ TerminalReached
  /\ segs_before >= 1
  /\ files[segs_before] = << >>
  /\ yielded # << >>
  /\ Completed

\* C9: the request frame is the 4 fixed header bytes, the 4-byte big-endian
\* length of the compressed payload, and the compressed payload.
C9_RequestFrameLayout ==
  c_pc \in { "encoded", "decoded" } =>
    LET n == Len(c_frame)
    IN  /\ n = 8 + Len(gzip_compress(c_payload))
        /\ SubSeq(c_frame, 1, 4) = << 17, 16, 17, 0 >>
        /\ FromBytesU(SubSeq(c_frame, 5, 8)) = n - 8
        /\ SubSeq(c_frame, 9, n) = gzip_compress(c_payload)

C9_Witness ==
  /\ c_pc = "encoded"
  /\ Len(c_payload) = 3
  /\ Len(c_frame) > 8

\* C10 as stated: the payload field decoded from an encoded request is the
\* compressed payload, and decompressing it gives the payload back.
C10_RoundTripPayloadField ==
  c_pc = "decoded" =>
    /\ c_dec.exc = "none"
    /\ c_dec.payload = gzip_compress(c_payload)
    /\ gzip_decompress(c_dec.payload) = [ok |-> TRUE, data |-> c_payload]

\* C10 as amended: the payload field starts at header_size * 4 = 4 and is the
\* 4-byte length followed by the compressed payload; decompressing what
\* follows the length gives the payload back.
C10_RoundTripAfterLength ==
  c_pc = "decoded" =>
    /\ c_dec.exc = "none"
    /\ c_dec.header_size = 1
    /\ c_dec.payload = SubSeq(c_frame, 5, Len(c_frame))
    /\ FromBytesU(Slice(c_dec.payload, 0, 4)) = Len(c_dec.payload) - 4
    /\ gzip_decompress(SliceFrom(c_dec.payload, 4)) = [ok |-> TRUE, data |-> c_payload]

C10_Witness ==
  /\ c_pc = "decoded"
  /\ Len(c_payload) = 3
  /\ c_dec.exc = "none"

Ended == Completed \/ Failed \/ Cancelled

RECURSIVE ConcatSegs(_, _)
ConcatSegs(fs, segs) ==
  IF segs = << >> THEN << >> ELSE fs[segs[1]] \o ConcatSegs(fs, Tail(segs))

StrictlyIncreasing(q) == \A i \in 1..Len(q) : \A j \in 1..Len(q) : i < j => q[i] < q[j]

\* the segment still being filled: the file of the current index, if any
OpenSegment ==
  IF idx \in DOMAIN files /\ idx \notin Range(seg_list) THEN files[idx] ELSE << >>

\* C11: however a call ends, its socket is closed once it has ended; no
\* connection is left open by a call that is over, and the socket a call
\* works on is never one that an earlier call held.
C11_SocketClosedAndOwn ==
  /\ Ended => sock # "open"
  /\ orphans = { }
  /\ sock = "open" => (ws # 0 /\ ws \notin used)

C11_Witness ==
  /\ calls = 2
  /\ Completed
  /\ used = { 1 }
  /\ ws = 2
  /\ sock = "closed"

\* C12: once a frame has been reported terminal or the call has failed, no
\* further frame is received.
C12_NoReceiveAfterEnd ==
  [][ (nrecv > 0 /\ (done \/ error # "none")) => (nrecv' = nrecv /\ res' = res) ]_vars

C12_Witness ==
  /\ pc = "yield"
  /\ done
  /\ nrecv < MaxFrames

\* C13: the merge runs at most once, only after a terminal AudioOnly frame,
\* on the list of closed segments; never for a session ended by an Error
\* frame or an unknown message type.
C13_MergeOnlyOnTerminalFrame ==
  merged # << >> =>
    /\ TerminalReached
    /\ Len(merged) = 1
    /\ merged[1] = seg_list
    /\ StrictlyIncreasing(seg_list)

\* C14: a session does not wait for ever: it ends (or, in the model, uses up
\* the frames the server may send) even when the server falls silent.
C14_SessionEventuallyEnds == <>(Ended \/ nrecv = MaxFrames)

\* C15: when the call is abandoned the socket is closed, the open segment is
\* neither yielded nor merged, and what was closed and yielded stays.
C15_CancelDiscardsOpenSegment ==
  [][ pc' = "cancelled" =>
        /\ sock' = "closed"
        /\ yielded' = yielded
        /\ seg_list' = seg_list
        /\ files' = files
        /\ merged' = << >>
        /\ idx' \notin Range(yielded')
        /\ idx' \notin Range(seg_list') ]_vars

C15_Witness ==
  /\ Cancelled
  /\ yielded # << >>
  /\ OpenSegment # << >>

\* C16: once the session is over none of its segment files exists.
C16_SegmentFilesRemoved == (Completed \/ Failed) => DOMAIN files = { }

\* C17: a frame's audio bytes are written whole to the current segment
\* before the size is tested; a segment that the bytes take over the
\* threshold closes in that same turn, and no later segment holds any of them.
C17_WriteThenCheck ==
  nrecv > 0 =>
    LET f == files[segs_before]
    IN  /\ wrote = AudioSent(srv)
        /\ Len(f) >= Len(wrote)
        /\ SubSeq(f, Len(f) - Len(wrote) + 1, Len(f)) = wrote
        /\ Len(f) > seg_size =>
             (Len(seg_list) = segs_before + 1 /\ seg_list[segs_before + 1] = segs_before)
        /\ \A i \in DOMAIN files : i <= segs_before

C17_Witness ==
  /\ nrecv >= 2
  /\ ~done
  /\ wrote # << >>
  /\ Len(files[segs_before]) > seg_size
  /\ Len(files[segs_before]) > Len(wrote)
  /\ Len(seg_list) = segs_before + 1

C19_IndexAndClosedSegments ==
  /\ idx = 0
  /\ [][ /\ idx' \in { idx, idx + 1 }
         /\ idx' = idx + 1 <=> seg_list' = Append(seg_list, idx)
         /\ idx' = idx => seg_list' = seg_list
         /\ \A i \in Range(seg_list) : i \in DOMAIN files' /\ files'[i] = files[i] ]_vars
  /\ [] StrictlyIncreasing(seg_list)

C19_Witness ==
  /\ nrecv = 3
  /\ Len(seg_list) >= 2
  /\ wrote # << >>
  /\ OpenSegment # << >>

\* C20: the closed segments in index order, followed by the open segment,
\* are the audio bytes of the AudioOnly frames with flags # 0 received so far,
\* in arrival order.
C20_SegmentsAreTheAudioReceived ==
  ConcatSegs(files, seg_list) \o OpenSegment = audio_in

C20_Witness ==
  /\ nrecv = 3
  /\ seg_list # << >>
  /\ OpenSegment # << >>
  /\ Len(audio_in) >= 3
  /\ srv.mt # AUDIO_ONLY

====
